---- MODULE Spec2Model ----
(***************************************************************************)
(* Model of vold's uevent handling (src/vold/uevent.c): the entry points   *)
(* process_uevent_message and simulate_uevent with the parse loop and the  *)
(* dispatch; the block and mmc subsystem handlers, the deferred            *)
(* ok-to-destroy callback and the registries they drive; the switch        *)
(* handler and the USB mass storage flags it sets.                         *)
(* The BlockDevice registry (blkdev.c), the Media                          *)
(* registry (media.c) and the VolumeManager (volmgr.c) are collaborators   *)
(* whose code is not part of the sources at hand; they are modelled from   *)
(* the interface descriptions of the specification.                        *)
(***************************************************************************)
EXTENDS Integers, Sequences, FiniteSets, TLC

VARIABLES
    blkdev_list,   \* BlockDevice registry: the set of blkdev records it holds
    media_list,    \* Media table: function from tracked device path to [devs]
    eject_cbs,     \* ok-to-destroy callbacks held by the VolumeManager: devno -> count
    dangling,      \* how many of them hold a pointer to a destroyed BlockDevice
    readded,       \* devnos whose device was found by an Add while its callback
                   \* was outstanding, with no Remove processed since (kept
                   \* up to date in SpecObserved only)
    last,          \* observation of the handler invocation that produced this state
    scn,           \* progress of the "disk, then its two partitions" add scenario
    host_connected, \* ums: a USB host is connected
    ums_enabled,    \* ums: mass storage is enabled
    sent,           \* status messages sent (send_msg) by the invocation in sw
    sw,             \* the invocation of handle_switch_event or of a ums setter
                    \* that produced this state
    buffer,         \* process_uevent_message: the bytes of the stack at buffer,
                    \* the received ones and what lies after them
    count,          \* process_uevent_message: number of bytes received
    pum,            \* process_uevent_message: its locals, its Event, where it is
    sim             \* simulate_uevent: its arguments and what the call did

block_vars == <<blkdev_list, media_list, eject_cbs, dangling, readded, last, scn>>
ums_vars == <<host_connected, ums_enabled, sent, sw>>
entry_vars == <<buffer, count, pum, sim>>

vars == <<block_vars, ums_vars, entry_vars>>

----------------------------------------------------------------------------
(* Bounds of the model *)

\* highest partition minor a disk can carry
MaxPart == 2
\* most ok-to-destroy callbacks outstanding at a time
MaxEject == 2

----------------------------------------------------------------------------
(* Constants of the program *)

\* a NULL string pointer, and a NULL media/devpath pointer (paths are sequences)
NULL == "NULL"
NoPath == <<>>

EINVAL == 22

action_add == "action_add"
action_remove == "action_remove"
action_change == "action_change"

----------------------------------------------------------------------------
(* Inputs: the events the kernel delivers *)

\* sysfs paths are sequences of path components
\* the card slot of the model and the device path of its card
BlockCard == <<"devices", "mmc0">>
CardPaths == {BlockCard}

DiskPath(card) == card \o <<"block", "mmcblk0">>
PartPath(card, k) == DiskPath(card) \o <<"p" \o ToString(k)>>
DevPath(card, k) == IF k = 0 THEN DiskPath(card) ELSE PartPath(card, k)

Minors == 0..MaxPart
MajorStr == "8"

Actions == {action_add, action_remove, action_change}

DevType(k) == IF k = 0 THEN "disk" ELSE "partition"

\* block events as the kernel emits them: the path and DEVTYPE agree with the
\* minor; "floppy" stands for a DEVTYPE that is neither disk nor partition
KernelBlockEvents ==
    { [subsystem |-> "block", action |-> a, path |-> DevPath(BlockCard, k),
       param |-> << <<"DEVTYPE", DevType(k)>>, <<"MAJOR", MajorStr>>,
                    <<"MINOR", ToString(k)>> >>] : a \in Actions, k \in Minors }

BadTypeBlockEvents ==
    { [subsystem |-> "block", action |-> a, path |-> DevPath(BlockCard, 0),
       param |-> << <<"DEVTYPE", "floppy">>, <<"MAJOR", MajorStr>>,
                    <<"MINOR", "0">> >>] : a \in Actions }

BlockEvents == KernelBlockEvents \cup BadTypeBlockEvents

MmcTypes == {"SD", "MMC", "SDIO"}

\* MMC_TYPE is read on add only: remove and change events carry "SD"
MmcEvents ==
    { e \in [subsystem : {"mmc"}, action : Actions, path : CardPaths,
             param : { << <<"MMC_TYPE", t>>, <<"MMC_NAME", "card">> >> : t \in MmcTypes }] :
         e.action # action_add => e.param[1][2] = "SD" }

----------------------------------------------------------------------------
(* Event parameters *)

\* index of the first param whose key is name, 0 when there is none
ParamIndex(event, name) ==
    LET hits == {i \in 1..Len(event.param) : event.param[i][1] = name}
    IN IF hits = {} THEN 0 ELSE CHOOSE i \in hits : \A j \in hits : i <= j

\* the text after "NAME=" of the first param that starts with NAME, or NULL.
\* The keys of the modelled events are never a proper prefix of one another,
\* so strncmp's prefix match is key equality here.
get_uevent_param(event, param_name) ==
    IF ParamIndex(event, param_name) = 0 THEN NULL
    ELSE event.param[ParamIndex(event, param_name)][2]

\* decimal strings of the model and their values; atoi yields 0 for text
\* that does not start with a digit
DecimalValue == [s \in {ToString(n) : n \in 0..9} |->
                    CHOOSE n \in 0..9 : ToString(n) = s]
atoi(s) == IF s \in DOMAIN DecimalValue THEN DecimalValue[s] ELSE 0

----------------------------------------------------------------------------
(* Collaborators: BlockDevice registry, Media table, VolumeManager *)

Devnos == {<<atoi(MajorStr), k>> : k \in Minors}

\* strip the last n components of a sysfs path
truncate_sysfs_path(path, n) ==
    IF Len(path) >= n THEN SubSeq(path, 1, Len(path) - n) ELSE <<>>

\* the tracked Media whose device path is path, or NULL
media_lookup_by_path(media, path) ==
    IF path \in DOMAIN media THEN path ELSE NoPath

\* the tracked Media that has dev attached, or NULL
media_lookup_by_dev(media, dev) ==
    IF \E p \in DOMAIN media : dev \in media[p].devs
    THEN CHOOSE p \in DOMAIN media : dev \in media[p].devs
    ELSE NoPath

\* media_create yields no Media when allocation fails or the path is tracked
media_create_fails(media, path, alloc_ok) == ~alloc_ok \/ path \in DOMAIN media

media_create(media, path) == [p \in DOMAIN media \cup {path} |->
                                 IF p = path THEN [devs |-> {}] ELSE media[p]]

media_destroy(media, path) == [p \in DOMAIN media \ {path} |-> media[p]]

media_add_blkdev(media, path, dev) ==
    [media EXCEPT ![path].devs = @ \cup {dev}]

media_remove_blkdev(media, path, dev) ==
    [media EXCEPT ![path].devs = @ \ {dev}]

\* the registry is the set of BlockDevices it holds: its interface (create,
\* lookup by devno, set device path, pending count, destroy) has no order

\* the registered BlockDevices with this devno; none for NULL
blkdev_lookup_by_devno(list, maj, min) ==
    {b \in list : b.major = maj /\ b.minor = min}

blkdev_devpath_set(list, blkdev, path) ==
    (list \ blkdev) \cup {[b EXCEPT !.devpath = path] : b \in blkdev}

\* placeholders for the partitions of a disk's partition table that are not
\* registered yet: partitions without a device path
PendingPartitions(list, maj, table) ==
    {[major |-> maj, minor |-> k, devpath |-> NoPath, type |-> "partition"] :
        k \in {n \in table : blkdev_lookup_by_devno(list, maj, n) = {}}}

\* a new BlockDevice in the registry; creating a disk enumerates its
\* partition table and registers a placeholder per partition
blkdev_create(list, disk, devpath, maj, min, type, table) ==
    list \cup {[major |-> maj, minor |-> min, devpath |-> devpath, type |-> type]}
         \cup (IF type = "disk" THEN PendingPartitions(list, maj, table) ELSE {})

\* the identity of a BlockDevice and of its parent disk (major, 0)
DevnoOf(b) == <<b.major, b.minor>>
DiskOf(b) == <<b.major, 0>>

\* partitions of the disk that are still placeholders
blkdev_get_num_pending_partitions(list, disk) ==
    Cardinality({b \in list : /\ b.type = "partition"
                              /\ b.major = disk[1]
                              /\ b.devpath = NoPath})

blkdev_destroy(list, dev) == {b \in list : DevnoOf(b) # dev}

\* the VolumeManager keeps the completion callback of an accepted eject
volmgr_notify_eject(cbs, dev) == [cbs EXCEPT ![dev] = @ + 1]

----------------------------------------------------------------------------
(* What a handler invocation leaves behind: the new tables, the source line of
   the return it took, its result code, the VolumeManager calls it made and the
   log lines it wrote *)

Outcome(ret, list, media, cbs, rc, calls, log, created, attached) ==
    [ret |-> ret, blkdevs |-> list, media |-> media, cbs |-> cbs, rc |-> rc,
     calls |-> calls, log |-> log, created |-> created, attached |-> attached]

\* a return that touched nothing
Return(ret, rc, log) ==
    Outcome(ret, blkdev_list, media_list, eject_cbs, rc, <<>>, log, FALSE, FALSE)

ConsiderCall(disk) == [fn |-> "volmgr_consider_disk", dev |-> disk]
EjectCall(dev) == [fn |-> "volmgr_notify_eject", dev |-> dev]

\* what the collaborators answer during one invocation: whether blkdev_create
\* and media_create allocate, the status of media_add_blkdev and of the
\* VolumeManager call, and the partition table read when a disk is created.
\* A handler stops at the first failing call, so at most one call fails.
Env(f, t) == [create_ok |-> f # "create",
              add_rc |-> IF f = "media_add_blkdev" THEN -1 ELSE 0,
              vol_rc |-> IF f = "volmgr" THEN -1 ELSE 0,
              table |-> t]

\* the answers an event can consult: a partition table only when a disk is
\* added, a failure only of a call the event's handler can reach
EnvsFor(event) ==
    IF event.subsystem = "block" /\ event.action = action_add
    THEN { Env(f, t) : f \in {"none", "create", "media_add_blkdev", "volmgr"},
                       t \in IF event.param[1][2] = "disk"
                             THEN SUBSET (1..MaxPart) ELSE {{}} }
    ELSE IF event.subsystem = "block" /\ event.action = action_remove
    THEN { Env(f, {}) : f \in {"none", "volmgr"} }
    ELSE IF event.subsystem = "mmc" /\ event.action = action_add
    THEN { Env(f, {}) : f \in {"none", "create"} }
    ELSE { Env("none", {}) }

----------------------------------------------------------------------------
(* handle_block_event *)

\* number of trailing path components between a block device and its media
\* (0: bad blockdev type)
DevtypeDepth(devtype) ==
    IF devtype = "disk" THEN 2
    ELSE IF devtype = "partition" THEN 3
    ELSE 0

\* (mutant) the pending-partition count is not consulted
ShouldConsider_ignores_count(pending, npending) == pending

\* (mutant) the disk is handed over as soon as one partition is left
ShouldConsider_off_by_one(pending, npending) == pending /\ npending <= 1

\* the disk goes to the volume manager when the device was already known and
\* no partition of its disk is pending
ShouldConsider(pending, npending) == pending /\ npending = 0

\* (mutant) the registry is not consulted: every Add creates a BlockDevice
block_add_without_lookup(event, media, maj, min, env) ==
    LET disk == blkdev_lookup_by_devno(blkdev_list, maj, 0)
        blkdev == {}
        pending == blkdev # {}
        list1 == IF pending
                 THEN blkdev_devpath_set(blkdev_list, blkdev, event.path)
                 ELSE blkdev_create(blkdev_list, disk, event.path, maj, min,
                                    get_uevent_param(event, "DEVTYPE"), env.table)
        dev == <<maj, min>>
        thedisk == DiskOf(CHOOSE b \in blkdev_lookup_by_devno(list1, maj, min) : TRUE)
        media1 == media_add_blkdev(media_list, media, dev)
        npending == blkdev_get_num_pending_partitions(list1, thedisk)
        logdisk == IF pending THEN <<"V:Pending disk has pending partitions">> ELSE <<>>
    IN IF ~pending /\ ~env.create_ok
       THEN Return(320, -1, <<"E:Unable to allocate new blkdev">>)
       ELSE IF env.add_rc < 0
       THEN Outcome(330, list1, media_list, eject_cbs, env.add_rc, <<>>,
                    <<"E:Unable to add blkdev to card">>, ~pending, FALSE)
       ELSE IF ~ShouldConsider(pending, npending)
       THEN Outcome(370, list1, media1, eject_cbs, 0, <<>>,
                    <<"V:New blkdev on media">> \o logdisk, ~pending, TRUE)
       ELSE IF env.vol_rc < 0
       THEN Outcome(348, list1, media1, eject_cbs, env.vol_rc,
                    <<ConsiderCall(thedisk)>>,
                    <<"V:New blkdev on media">> \o logdisk
                       \o <<"E:Volmgr failed to handle pending device">>,
                    ~pending, TRUE)
       ELSE Outcome(370, list1, media1, eject_cbs, 0, <<ConsiderCall(thedisk)>>,
                    <<"V:New blkdev on media">> \o logdisk, ~pending, TRUE)

block_add(event, media, maj, min, env) ==
    LET disk == blkdev_lookup_by_devno(blkdev_list, maj, 0)
        blkdev == blkdev_lookup_by_devno(blkdev_list, maj, min)
        pending == blkdev # {}
        list1 == IF pending
                 THEN blkdev_devpath_set(blkdev_list, blkdev, event.path)
                 ELSE blkdev_create(blkdev_list, disk, event.path, maj, min,
                                    get_uevent_param(event, "DEVTYPE"), env.table)
        dev == <<maj, min>>
        thedisk == DiskOf(CHOOSE b \in blkdev_lookup_by_devno(list1, maj, min) : TRUE)
        media1 == media_add_blkdev(media_list, media, dev)
        npending == blkdev_get_num_pending_partitions(list1, thedisk)
        logdisk == IF pending THEN <<"V:Pending disk has pending partitions">> ELSE <<>>
    IN IF ~pending /\ ~env.create_ok
       THEN Return(320, -1, <<"E:Unable to allocate new blkdev">>)
       ELSE IF env.add_rc < 0
       THEN Outcome(330, list1, media_list, eject_cbs, env.add_rc, <<>>,
                    <<"E:Unable to add blkdev to card">>, ~pending, FALSE)
       ELSE IF ~ShouldConsider(pending, npending)
       THEN Outcome(370, list1, media1, eject_cbs, 0, <<>>,
                    <<"V:New blkdev on media">> \o logdisk, ~pending, TRUE)
       ELSE IF env.vol_rc < 0
       THEN Outcome(348, list1, media1, eject_cbs, env.vol_rc,
                    <<ConsiderCall(thedisk)>>,
                    <<"V:New blkdev on media">> \o logdisk
                       \o <<"E:Volmgr failed to handle pending device">>,
                    ~pending, TRUE)
       ELSE Outcome(370, list1, media1, eject_cbs, 0, <<ConsiderCall(thedisk)>>,
                    <<"V:New blkdev on media">> \o logdisk, ~pending, TRUE)

\* (mutant) the Remove handler destroys the device itself
block_remove_destroys(event, media, maj, min, env) ==
    LET dev == <<maj, min>>
    IN IF blkdev_lookup_by_devno(blkdev_list, maj, min) = {}
       THEN Return(359, 0, <<>>)
       ELSE Outcome(370, blkdev_destroy(blkdev_list, dev),
                    media_remove_blkdev(media_list, media, dev), eject_cbs,
                    0, <<EjectCall(dev)>>, <<"V:Destroying blkdev">>, FALSE, FALSE)

\* (mutant) an unknown device is an error, as an unknown Media is for mmc
block_remove_unknown_fails(event, media, maj, min, env) ==
    LET dev == <<maj, min>>
    IN IF blkdev_lookup_by_devno(blkdev_list, maj, min) = {}
       THEN Return(359, -1, <<>>)
       ELSE Outcome(370, blkdev_list, media_list,
                    IF env.vol_rc < 0 THEN eject_cbs
                    ELSE volmgr_notify_eject(eject_cbs, dev),
                    0, <<EjectCall(dev)>>, <<"V:Destroying blkdev">>, FALSE, FALSE)

block_remove(event, media, maj, min, env) ==
    LET blkdev == blkdev_lookup_by_devno(blkdev_list, maj, min)
        dev == <<maj, min>>
    IN IF blkdev = {}
       THEN Return(359, 0, <<>>)
       ELSE IF env.vol_rc < 0
       THEN Outcome(370, blkdev_list, media_list, eject_cbs, 0, <<EjectCall(dev)>>,
                    <<"V:Destroying blkdev", "E:Error notifying volmgr of eject">>,
                    FALSE, FALSE)
       ELSE Outcome(370, blkdev_list, media_list, volmgr_notify_eject(eject_cbs, dev),
                    0, <<EjectCall(dev)>>, <<"V:Destroying blkdev">>, FALSE, FALSE)

\* (mutant) a Change event is handled like an Add
handle_block_event_change_as_add(event, env) ==
    LET n == DevtypeDepth(get_uevent_param(event, "DEVTYPE"))
        mediapath == truncate_sysfs_path(event.path, n)
        media == media_lookup_by_path(media_list, mediapath)
        maj == atoi(get_uevent_param(event, "MAJOR"))
        min == atoi(get_uevent_param(event, "MINOR"))
    IN IF n = 0 THEN Return(279, -EINVAL, <<"E:Bad blockdev type">>)
       ELSE IF media = NoPath THEN Return(288, 0, <<>>)
       ELSE IF event.action = action_remove THEN block_remove(event, media, maj, min, env)
       ELSE block_add(event, media, maj, min, env)

\* (mutant) a missing backing Media is reported as an error
handle_block_event_media_required(event, env) ==
    LET n == DevtypeDepth(get_uevent_param(event, "DEVTYPE"))
        media == media_lookup_by_path(media_list, truncate_sysfs_path(event.path, n))
        maj == atoi(get_uevent_param(event, "MAJOR"))
        min == atoi(get_uevent_param(event, "MINOR"))
    IN IF n = 0 THEN Return(279, -EINVAL, <<"E:Bad blockdev type">>)
       ELSE IF media = NoPath THEN Return(288, -1, <<>>)
       ELSE IF event.action = action_add THEN block_add(event, media, maj, min, env)
       ELSE IF event.action = action_remove THEN block_remove(event, media, maj, min, env)
       ELSE Return(370, 0, <<>>)

handle_block_event(event, env) ==
    LET n == DevtypeDepth(get_uevent_param(event, "DEVTYPE"))
        mediapath == truncate_sysfs_path(event.path, n)
        media == media_lookup_by_path(media_list, mediapath)
        maj == atoi(get_uevent_param(event, "MAJOR"))
        min == atoi(get_uevent_param(event, "MINOR"))
    IN IF n = 0 THEN Return(279, -EINVAL, <<"E:Bad blockdev type">>)
       ELSE IF media = NoPath THEN Return(288, 0, <<>>)
       ELSE IF event.action = action_add THEN block_add(event, media, maj, min, env)
       ELSE IF event.action = action_remove THEN block_remove(event, media, maj, min, env)
       ELSE Return(370, 0, <<>>)

----------------------------------------------------------------------------
(* _cb_blkdev_ok_to_destroy *)

\* (mutant) the device is destroyed but stays attached to its Media
cb_blkdev_ok_to_destroy_keeps_attached(dev) ==
    Outcome(379, blkdev_destroy(blkdev_list, dev), media_list,
            [eject_cbs EXCEPT ![dev] = @ - 1],
            0, <<>>, <<>>, FALSE, FALSE)

cb_blkdev_ok_to_destroy(dev) ==
    LET media == media_lookup_by_dev(media_list, dev)
    IN Outcome(379, blkdev_destroy(blkdev_list, dev),
               IF media # NoPath THEN media_remove_blkdev(media_list, media, dev)
               ELSE media_list,
               [eject_cbs EXCEPT ![dev] = @ - 1],
               0, <<>>, <<>>, FALSE, FALSE)

\* The callback is handed the pointer that volmgr_notify_eject was given.  When
\* that BlockDevice has been destroyed in the meantime the pointer dangles:
\* media_lookup_by_dev reads it and blkdev_destroy frees it a second time.
\* What that does is undefined: the daemon faults, or nothing visible happens,
\* or the freed block is by now the BlockDevice registered again under this
\* devno, which is then the one detached and destroyed.
FreedOutcomes(dev) ==
    {"fault", "nothing"} \cup
    (IF blkdev_lookup_by_devno(blkdev_list, dev[1], dev[2]) # {}
     THEN {"reused"} ELSE {})

cb_blkdev_ok_to_destroy_freed(dev, ub) ==
    IF ub = "reused" THEN cb_blkdev_ok_to_destroy(dev)
    ELSE IF ub = "fault"
    THEN Outcome(378, blkdev_list, media_list, eject_cbs, 0, <<>>, <<>>, FALSE, FALSE)
    ELSE Outcome(379, blkdev_list, media_list, [eject_cbs EXCEPT ![dev] = @ - 1],
                 0, <<>>, <<>>, FALSE, FALSE)

----------------------------------------------------------------------------
(* handle_mmc_event *)

\* (mutant) the type is compared on its first two characters only
IsCardType_prefix(type) == type = "SD" \/ type = "MMC" \/ type = "SDIO"

\* strcmp(type, "SD") && strcmp(type, "MMC") is zero: the card is SD or MMC
IsCardType(type) == type = "SD" \/ type = "MMC"

\* card insertion: a Media for SD and MMC cards only
mmc_add(media, event, env) ==
    IF ~IsCardType(get_uevent_param(event, "MMC_TYPE"))
    THEN [ret |-> 398, media |-> media, rc |-> 0, log |-> <<>>, created |-> FALSE]
    ELSE IF media_create_fails(media, event.path, env.create_ok)
    THEN [ret |-> 406, media |-> media, rc |-> -1,
          log |-> <<"E:Unable to allocate new media">>, created |-> FALSE]
    ELSE [ret |-> 430, media |-> media_create(media, event.path), rc |-> 0,
          log |-> <<"V:New MMC card added">>, created |-> TRUE]

\* (mutant) an unknown Media is benign, as an unknown device is for block
mmc_remove_unknown_ok(media, event) ==
    IF media_lookup_by_path(media, event.path) = NoPath
    THEN [ret |-> 415, media |-> media, rc |-> 0, log |-> <<>>, created |-> FALSE]
    ELSE [ret |-> 430, media |-> media_destroy(media, event.path), rc |-> 0,
          log |-> <<"V:MMC card removed">>, created |-> FALSE]

\* card removal: the Media is destroyed, whatever is attached to it
mmc_remove(media, event) ==
    IF media_lookup_by_path(media, event.path) = NoPath
    THEN [ret |-> 415, media |-> media, rc |-> -1,
          log |-> <<"E:Unable to lookup media">>, created |-> FALSE]
    ELSE [ret |-> 430, media |-> media_destroy(media, event.path), rc |-> 0,
          log |-> <<"V:MMC card removed">>, created |-> FALSE]

handle_mmc_event(event, env) ==
    LET r == IF event.action = action_add THEN mmc_add(media_list, event, env)
             ELSE IF event.action = action_remove THEN mmc_remove(media_list, event)
             ELSE [ret |-> 430, media |-> media_list, rc |-> 0, log |-> <<>>,
                   created |-> FALSE]
    IN Outcome(r.ret, blkdev_list, r.media, eject_cbs, r.rc, <<>>, r.log,
               r.created, FALSE)

----------------------------------------------------------------------------
(* Observation of the scenario "a disk is added to a Media without block
   devices, then its two partitions are added": stage counts the scenario's
   events processed so far without any other step in between, considers[i] the
   considerDisk calls made while processing the i-th of them *)

NoScenario == [stage |-> 0, considers |-> <<>>]

NumConsiders(calls) ==
    Cardinality({i \in 1..Len(calls) : calls[i].fn = "volmgr_consider_disk"})

IsPlaceholder(list, dev) ==
    /\ blkdev_lookup_by_devno(list, dev[1], dev[2]) # {}
    /\ \A b \in blkdev_lookup_by_devno(list, dev[1], dev[2]) : b.devpath = NoPath

ScenarioStep(event, dev, r) ==
    IF /\ event.subsystem = "block" /\ event.action = action_add
       /\ r.attached /\ r.created /\ dev[2] = 0
       /\ blkdev_list = {}
       /\ \A p \in DOMAIN media_list : media_list[p].devs = {}
       /\ blkdev_get_num_pending_partitions(r.blkdevs, dev) = 2
    THEN [stage |-> 1, considers |-> <<NumConsiders(r.calls)>>]
    ELSE IF /\ scn.stage \in {1, 2}
            /\ event.subsystem = "block" /\ event.action = action_add
            /\ r.attached /\ dev[2] # 0
            /\ IsPlaceholder(blkdev_list, dev)
    THEN [stage |-> scn.stage + 1,
          considers |-> Append(scn.considers, NumConsiders(r.calls))]
    ELSE NoScenario

----------------------------------------------------------------------------
(* USB mass storage flags (ums.c part of the source) and handle_switch_event *)

\* status messages of vold
VOLD_EVT_UMS_ENABLED == "VOLD_EVT_UMS_ENABLED"
VOLD_EVT_UMS_DISABLED == "VOLD_EVT_UMS_DISABLED"
VOLD_EVT_UMS_CONNECTED == "VOLD_EVT_UMS_CONNECTED"
VOLD_EVT_UMS_DISCONNECTED == "VOLD_EVT_UMS_DISCONNECTED"

\* the ums state a call works on: the two flags and the messages sent so far
\* by the running invocation
Ums(connected, enabled, msgs) ==
    [host_connected |-> connected, ums_enabled |-> enabled, sent |-> msgs]

ums_enabled_set(u, enabled) ==
    Ums(u.host_connected, enabled,
        Append(u.sent, IF enabled THEN VOLD_EVT_UMS_ENABLED
                       ELSE VOLD_EVT_UMS_DISABLED))

ums_hostconnected_set(u, connected) ==
    LET u1 == Ums(connected, u.ums_enabled, u.sent)
        u2 == IF ~connected THEN ums_enabled_set(u1, FALSE) ELSE u1
    IN Ums(u2.host_connected, u2.ums_enabled,
           Append(u2.sent, IF connected THEN VOLD_EVT_UMS_CONNECTED
                           ELSE VOLD_EVT_UMS_DISCONNECTED))

\* switch events: SWITCH_NAME and SWITCH_STATE each present or not; "h2w"
\* stands for a switch other than usb_mass_storage, "ONLINE" for a state that
\* is neither "online" nor "offline"
SwitchNames == {"usb_mass_storage", "h2w"}
SwitchStates == {"online", "offline", "ONLINE"}

SwitchParams ==
    { << <<"SWITCH_NAME", n>>, <<"SWITCH_STATE", st>> >> :
          n \in SwitchNames, st \in SwitchStates }
      \cup { << <<"SWITCH_NAME", n>> >> : n \in SwitchNames }
      \cup { << <<"SWITCH_STATE", st>> >> : st \in SwitchStates }
      \cup { <<>> }

SwitchEvents ==
    [subsystem : {"switch"}, action : Actions, path : {<<"devices", "switch">>},
     param : SwitchParams]

\* strcmp(a, b) = 0.  A NULL argument is dereferenced: the call may fault, or
\* read whatever lies at address 0 and compare equal or not; ub is the
\* outcome the run takes in that case.
StrcmpOutcomes == {"fault", "equal", "differ"}
strcmp_eq(a, b, ub) ==
    IF a = NULL \/ b = NULL THEN ub ELSE IF a = b THEN "equal" ELSE "differ"

\* what an invocation of the switch handler leaves behind: whether it
\* returned or faulted, the source line where it ended, its result code and
\* the ums state
SwitchOutcome(status, line, rc, u) ==
    [status |-> status, line |-> line, rc |-> rc, ums |-> u]

handle_switch_event(event, u, ub) ==
    LET name == get_uevent_param(event, "SWITCH_NAME")
        state == get_uevent_param(event, "SWITCH_STATE")
        is_ums == strcmp_eq(name, "usb_mass_storage", ub)
        is_online == strcmp_eq(state, "online", ub)
    IN IF is_ums = "fault" THEN SwitchOutcome("fault", 244, 0, u)
       ELSE IF is_ums = "differ" THEN SwitchOutcome("returned", 253, 0, u)
       ELSE IF is_online = "fault" THEN SwitchOutcome("fault", 245, 0, u)
       ELSE IF is_online = "equal"
       THEN SwitchOutcome("returned", 253, 0, ums_hostconnected_set(u, TRUE))
       ELSE SwitchOutcome("returned", 253, 0, ums_hostconnected_set(u, FALSE))

----------------------------------------------------------------------------
(* Wire messages.  A byte is a one-character string, the zero byte the empty
   string; a C string is the sequence of its bytes without the terminator. *)

NUL == ""

\* size of the param array of struct uevent
UEVENT_PARAMS_MAX == 32

\* a NULL char pointer among byte sequences
NullStr == <<"NULL">>

Txt_ACTION == <<"A", "C", "T", "I", "O", "N", "=">>
Txt_SEQNUM == <<"S", "E", "Q", "N", "U", "M", "=">>
Txt_SUBSYSTEM == <<"S", "U", "B", "S", "Y", "S", "T", "E", "M", "=">>
Txt_add == <<"a", "d", "d">>
Txt_change == <<"c", "h", "a", "n", "g", "e">>
Txt_remove == <<"r", "e", "m", "o", "v", "e">>
Txt_move == <<"m", "o", "v", "e">>
Txt_switch == <<"s", "w", "i", "t", "c", "h">>
Txt_battery == <<"b", "a", "t", "t", "e", "r", "y">>
Txt_mmc == <<"m", "m", "c">>
Txt_block == <<"b", "l", "o", "c", "k">>
Txt_blocks == <<"b", "l", "o", "c", "k", "s">>
Txt_bdi == <<"b", "d", "i">>
Txt_power_supply == <<"p", "o", "w", "e", "r", "_", "s", "u", "p", "p", "l", "y">>

\* offset of the first byte c at or after offset off, -1 if the modelled
\* memory holds none
FirstFrom(mem, off, c) ==
    LET hits == {j \in off..(Len(mem) - 1) : mem[j + 1] = c}
    IN IF hits = {} THEN -1 ELSE CHOOSE j \in hits : \A k \in hits : j <= k

\* the bytes at offsets from..(to - 1)
Bytes(mem, from, to) == SubSeq(mem, from + 1, to)

\* strncmp(str, pre, strlen(pre)) = 0
HasPrefix(str, pre) == Len(str) >= Len(pre) /\ SubSeq(str, 1, Len(pre)) = pre

\* str + n
Skip(str, n) == SubSeq(str, n + 1, Len(str))

Max(a, b) == IF a >= b THEN a ELSE b

\* atoi on bytes: the value of the leading decimal digits, 0 without any
DigitValue(c) == IF c \in DOMAIN DecimalValue THEN DecimalValue[c] ELSE -1

atoi_bytes(str) ==
    LET RECURSIVE Acc(_, _)
        Acc(i, v) == IF i > Len(str) \/ DigitValue(str[i]) < 0 THEN v
                     ELSE Acc(i + 1, 10 * v + DigitValue(str[i]))
    IN Acc(1, 0)

----------------------------------------------------------------------------
(* process_uevent_message: the parse loop *)

\* a struct uevent after memset(event, 0, ...): action 0 is action_add
NewEvent == [path |-> NullStr, action |-> action_add, subsystem |-> NullStr,
             param |-> <<>>, seqnum |-> 0]

\* the frame of process_uevent_message on entry.  pc: "recv" before recv(),
\* "loop" in the parse loop, "done" after the return, "fault" when a read left
\* the modelled memory.  read_upto: number of bytes from the start of buffer
\* up to the last one read so far.  oob: a write went outside param[0..31].
\* allocated, freed: Events allocated and handed to free_uevent.
EntryFrame ==
    [pc |-> "recv", s |-> 0, first |-> TRUE, param_idx |-> 0, event |-> NewEvent,
     read_upto |-> 0, oob |-> FALSE, rc |-> 0, handler |-> "none",
     allocated |-> 0, freed |-> 0]

\* the action an ACTION= string sets, the current one for an unknown text
ParseAction(a, current) ==
    IF a = Txt_add THEN action_add
    ELSE IF a = Txt_change THEN action_change
    ELSE IF a = Txt_remove THEN action_remove
    ELSE current

\* event->param[param_idx++] = strdup(s): slots 0..31 exist; a write at a
\* higher index lands outside the array
StoreParam(f, str) ==
    IF f.param_idx < UEVENT_PARAMS_MAX
    THEN [f EXCEPT !.event.param = Append(@, str), !.param_idx = @ + 1]
    ELSE [f EXCEPT !.oob = TRUE, !.param_idx = @ + 1]

\* (mutant) a SUBSYSTEM= string is kept among the params as well
parse_field_keeps_subsystem(f, str) ==
    IF HasPrefix(str, Txt_ACTION)
    THEN [f EXCEPT !.event.action = ParseAction(Skip(str, Len(Txt_ACTION)), @)]
    ELSE IF HasPrefix(str, Txt_SEQNUM)
    THEN [f EXCEPT !.event.seqnum = atoi_bytes(Skip(str, Len(Txt_SEQNUM)))]
    ELSE IF HasPrefix(str, Txt_SUBSYSTEM)
    THEN [StoreParam(f, str)
            EXCEPT !.event.subsystem = Skip(str, Len(Txt_SUBSYSTEM))]
    ELSE StoreParam(f, str)

\* one string that is not the first (lines 106-122)
parse_field(f, str) ==
    IF HasPrefix(str, Txt_ACTION)
    THEN [f EXCEPT !.event.action = ParseAction(Skip(str, Len(Txt_ACTION)), @)]
    ELSE IF HasPrefix(str, Txt_SEQNUM)
    THEN [f EXCEPT !.event.seqnum = atoi_bytes(Skip(str, Len(Txt_SEQNUM)))]
    ELSE IF HasPrefix(str, Txt_SUBSYSTEM)
    THEN [f EXCEPT !.event.subsystem = Skip(str, Len(Txt_SUBSYSTEM))]
    ELSE StoreParam(f, str)

\* the first string (lines 100-105, 123): p runs from s to the next '@',
\* whatever lies between; path is the C string after it
parse_first(f, mem, cnt) ==
    LET at == FirstFrom(mem, f.s, "@")
        nul_p == FirstFrom(mem, at + 1, NUL)
        nul_s == FirstFrom(mem, f.s, NUL)
    IN IF at < 0 \/ nul_p < 0
       THEN [f EXCEPT !.pc = "fault", !.read_upto = Len(mem) + 1]
       ELSE [f EXCEPT !.event.path = Bytes(mem, at + 1, nul_p), !.first = FALSE,
                      !.read_upto = Max(@, nul_p + 1), !.s = nul_s + 1]

\* one iteration of while (s < end) (lines 98-124)
parse_step(f, mem, cnt) ==
    IF f.first THEN parse_first(f, mem, cnt)
    ELSE LET nul == FirstFrom(mem, f.s, NUL)
         IN IF nul < 0
            THEN [f EXCEPT !.pc = "fault", !.read_upto = Len(mem) + 1]
            ELSE [parse_field(f, Bytes(mem, f.s, nul))
                    EXCEPT !.read_upto = Max(@, nul + 1), !.s = nul + 1]

----------------------------------------------------------------------------
(* dispatch_uevent, free_uevent and the two entry points *)

dispatch_table ==
    << [subsystem |-> Txt_switch, dispatch |-> "handle_switch_event"],
       [subsystem |-> Txt_battery, dispatch |-> "handle_battery_event"],
       [subsystem |-> Txt_mmc, dispatch |-> "handle_mmc_event"],
       [subsystem |-> Txt_block, dispatch |-> "handle_block_event"],
       [subsystem |-> Txt_bdi, dispatch |-> "handle_bdi_event"],
       [subsystem |-> Txt_power_supply, dispatch |-> "handle_powersupply_event"] >>

\* result codes a handler can return: success, a collaborator's error, -EINVAL
HandlerRcs == {0, -1, -EINVAL}

DispatchOutcome(status, handler, rc) ==
    [status |-> status, handler |-> handler, rc |-> rc]

\* the first entry whose tag equals the Event's subsystem runs and its result
\* is returned; 0 when there is none.  hrc is the result the handler returns.
\* strcmp on a NULL subsystem reads through the NULL pointer: the run faults,
\* or takes what it reads for equal to the first tag, or for different from
\* all tags (ub).
dispatch_uevent(event, hrc, ub) ==
    LET hits == {i \in 1..Len(dispatch_table) :
                    dispatch_table[i].subsystem = event.subsystem}
    IN IF event.subsystem = NullStr
       THEN (IF ub = "fault" THEN DispatchOutcome("fault", "none", 0)
             ELSE IF ub = "equal"
             THEN DispatchOutcome("returned", dispatch_table[1].dispatch, hrc)
             ELSE DispatchOutcome("returned", "none", 0))
       ELSE IF hits = {} THEN DispatchOutcome("returned", "none", 0)
       ELSE DispatchOutcome("returned",
                dispatch_table[CHOOSE i \in hits : \A j \in hits : i <= j].dispatch,
                hrc)

\* lines 126-129: dispatch, free the Event, return the handler's result
dispatch_and_free(f, hrc, ub) ==
    LET r == dispatch_uevent(f.event, hrc, ub)
    IN IF r.status = "fault" THEN [f EXCEPT !.pc = "fault"]
       ELSE [f EXCEPT !.pc = "done", !.rc = r.rc, !.handler = r.handler,
                      !.freed = @ + 1]

\* process_uevent_message from the parse loop to its return (lines 97-129)
process_uevent_message(mem, cnt, hrc, ub) ==
    LET RECURSIVE Run(_)
        Run(f) == IF f.pc # "loop" THEN f
                  ELSE IF f.s < cnt THEN Run(parse_step(f, mem, cnt))
                  ELSE dispatch_and_free(f, hrc, ub)
    IN Run([EntryFrame EXCEPT !.pc = "loop", !.allocated = 1])

\* the first n entries of a params array, at most the Event's capacity
\* (lines 159-163)
CopyParams(params) ==
    SubSeq(params, 1, IF Len(params) < UEVENT_PARAMS_MAX THEN Len(params)
                      ELSE UEVENT_PARAMS_MAX)

IsAction(a) == a \in {Txt_add, Txt_change, Txt_remove}

\* simulate_uevent (lines 132-169); an action text other than add, change,
\* remove returns -1 at line 153
simulate_uevent(args, malloc_ok, hrc, ub) ==
    LET f0 == [EntryFrame EXCEPT !.pc = "loop", !.allocated = 1,
                                 !.event.subsystem = args.subsys]
        f1 == [f0 EXCEPT !.event.action = ParseAction(args.action, @),
                         !.event.path = args.path,
                         !.event.param = CopyParams(args.params),
                         !.param_idx = Len(CopyParams(args.params))]
    IN IF ~malloc_ok THEN [EntryFrame EXCEPT !.pc = "done", !.rc = -1]
       ELSE IF ~IsAction(args.action)
       THEN [f0 EXCEPT !.pc = "done", !.rc = -1]
       ELSE dispatch_and_free(f1, hrc, ub)

----------------------------------------------------------------------------
(* Inputs of the entry points *)

\* most params of a short message
MaxParams == 2
\* params of a long message beyond the capacity of the param array
MaxOver == 1

\* the bytes of a message: each string followed by its terminator
Wire(strs) ==
    LET RECURSIVE Cat(_)
        Cat(i) == IF i > Len(strs) THEN <<>> ELSE strs[i] \o <<NUL>> \o Cat(i + 1)
    IN Cat(1)

\* the k-th param string, "K=dd"
Param(k) == <<"K", "=", ToString(k \div 10), ToString(k % 10)>>
ParamList(n) == [k \in 1..n |-> Param(k)]

FirstStrings == { <<"a", "@", "d">>, <<"a", "@", "d", "@", "e">>, <<"a", "d">> }

ActionFields == { <<>> } \cup { <<Txt_ACTION \o a>> :
                                   a \in {Txt_add, Txt_change, Txt_remove, Txt_move} }
SubsystemFields == { <<>> } \cup { <<Txt_SUBSYSTEM \o t>> :
                                      t \in {Txt_block, Txt_blocks, Txt_switch} }
SeqnumFields == { <<>>, <<Txt_SEQNUM \o <<"1", "2">> >> }

\* a last string that holds an '@'
AtParam == <<"x", "@", "y">>

ShortStrings ==
    { <<first>> \o a \o q \o t \o ParamList(n) \o x :
        first \in FirstStrings, a \in ActionFields, q \in SeqnumFields,
        t \in SubsystemFields, n \in 0..MaxParams, x \in { <<>>, <<AtParam>> } }

LongStrings ==
    { << <<"a", "@", "d">>, Txt_ACTION \o Txt_add, Txt_SUBSYSTEM \o Txt_block >>
         \o ParamList(n) :
        n \in (UEVENT_PARAMS_MAX - 1)..(UEVENT_PARAMS_MAX + MaxOver) }

\* what can lie on the stack after the received bytes
Tails == { <<>>, <<NUL>>, <<"@", "z", NUL>> }

\* a received message with what follows it: whole messages, messages whose
\* last string arrived without its terminator, and the empty message
Messages ==
    { [mem |-> Wire(m) \o tail, count |-> Len(Wire(m))] :
          m \in ShortStrings \cup LongStrings, tail \in Tails }
    \cup { [mem |-> SubSeq(Wire(m), 1, Len(Wire(m)) - 1) \o tail,
             count |-> Len(Wire(m)) - 1] :
             m \in ShortStrings, tail \in Tails }
    \cup { [mem |-> tail, count |-> 0] : tail \in Tails }

\* arguments of simulate_uevent; params is the array up to its NULL entry
SimArgs ==
    [subsys : {Txt_block, Txt_blocks}, path : { <<"d">> },
     action : {Txt_add, Txt_change, Txt_remove, Txt_move},
     params : { ParamList(n) : n \in 0..MaxParams }
                \cup { ParamList(UEVENT_PARAMS_MAX + MaxOver) }]

NoArgs == [subsys |-> NullStr, path |-> NullStr, action |-> NullStr, params |-> <<>>]

\* the wire message that carries the same path, ACTION, SUBSYSTEM and params
Encode(args) ==
    Wire(<< args.action \o <<"@">> \o args.path, Txt_ACTION \o args.action,
            Txt_SUBSYSTEM \o args.subsys >> \o args.params)

----------------------------------------------------------------------------
(* The state machine.  The daemon is single-threaded: it runs one handler (or
   one callback) at a time, to its return.  last is where that thread is: Idle
   between invocations, otherwise at the return of the invocation recorded in
   it, with the event handled, the source line of the return taken, the result
   code, the VolumeManager calls made and, for the callback, the device and
   whether its pointer dangled; or stopped for good at a fault. *)

NoEvent == [subsystem |-> "none", action |-> "none", path |-> NoPath, param |-> <<>>]
NoDev == <<>>

Observe(op, event, dev, r, destroyed) ==
    [op |-> op, event |-> event, dev |-> dev, ret |-> r.ret, rc |-> r.rc,
     calls |-> r.calls, created |-> r.created, attached |-> r.attached,
     destroyed |-> destroyed, freed |-> FALSE, status |-> "returned"]

Idle == Observe("idle", NoEvent, NoDev, Return(0, 0, <<>>), FALSE)

\* no entry point has been called
NotEntered == [EntryFrame EXCEPT !.pc = "off"]
NoSim == [args |-> NoArgs, f |-> NotEntered]

\* no switch handler or ums setter has run yet
NoSwitch == [op |-> "none", event |-> NoEvent, arg |-> FALSE,
             status |-> "returned", line |-> 0, rc |-> 0]

Init ==
    /\ blkdev_list = {}
    /\ media_list = <<>>
    /\ eject_cbs = [d \in Devnos |-> 0]
    /\ dangling = [d \in Devnos |-> 0]
    /\ readded = {}
    /\ last = Idle
    /\ scn = NoScenario
    /\ host_connected = FALSE
    /\ ums_enabled = FALSE
    /\ sent = <<>>
    /\ sw = NoSwitch
    /\ buffer = <<>>
    /\ count = 0
    /\ pum = NotEntered
    /\ sim = NoSim

Apply(r) ==
    /\ blkdev_list' = r.blkdevs
    /\ media_list' = r.media
    /\ eject_cbs' = r.cbs

\* ok-to-destroy callbacks the VolumeManager holds
Outstanding(cbs) ==
    LET RECURSIVE Sum(_)
        Sum(S) == IF S = {} THEN 0
                  ELSE LET d == CHOOSE x \in S : TRUE IN cbs[d] + Sum(S \ {d})
    IN Sum(DOMAIN cbs)

\* the devno a block event names
EventDev(event) ==
    <<atoi(get_uevent_param(event, "MAJOR")), atoi(get_uevent_param(event, "MINOR"))>>

Registered(list, dev) == blkdev_lookup_by_devno(list, dev[1], dev[2]) # {}

\* callbacks for this devno whose BlockDevice is still the registered one
Live(cbs, dang, dev) == cbs[dev] - dang[dev]

\* the Add found the BlockDevice registered (uevent.c:309-311) while a
\* callback to destroy it is outstanding
FoundByAdd(event, dev, r) ==
    /\ event.action = action_add
    /\ r.ret \in {330, 348, 370}
    /\ ~r.created
    /\ Live(eject_cbs, dangling, dev) > 0

Readded(event, dev, r) ==
    IF FoundByAdd(event, dev, r) THEN readded \cup {dev}
    ELSE IF event.action = action_remove THEN readded \ {dev}
    ELSE readded

\* handle_block_event runs on a block event
RunBlockHandler ==
    /\ last.op = "idle"
    /\ \E event \in BlockEvents : \E env \in EnvsFor(event) :
        LET r == handle_block_event(event, env)
        IN /\ Outstanding(r.cbs) <= MaxEject
           /\ Apply(r)
           /\ last' = Observe("block", event, EventDev(event), r, FALSE)
           /\ scn' = ScenarioStep(event, EventDev(event), r)
    /\ UNCHANGED <<dangling, ums_vars, entry_vars>>

\* the kernel delivers a block event and handle_block_event runs
BlockEvent == RunBlockHandler /\ UNCHANGED readded

\* the same, observed with the record of the devices found again by an Add
BlockEventObserved ==
    RunBlockHandler /\ readded' = Readded(last'.event, last'.dev, last')

\* the kernel delivers an mmc event and handle_mmc_event runs
MmcEvent ==
    /\ last.op = "idle"
    /\ \E event \in MmcEvents : \E env \in EnvsFor(event) :
        LET r == handle_mmc_event(event, env)
        IN /\ Apply(r)
           /\ last' = Observe("mmc", event, NoDev, r, FALSE)
           /\ scn' = NoScenario
    /\ UNCHANGED <<dangling, readded, ums_vars, entry_vars>>

\* the VolumeManager invokes an ok-to-destroy callback it holds, whose
\* BlockDevice is still the registered one; the other callbacks for the
\* device are left with a pointer to a destroyed BlockDevice
CallbackFires ==
    /\ last.op = "idle"
    /\ \E dev \in Devnos :
        /\ Live(eject_cbs, dangling, dev) > 0
        /\ LET r == cb_blkdev_ok_to_destroy(dev)
           IN /\ Apply(r)
              /\ dangling' = [dangling EXCEPT ![dev] = r.cbs[dev]]
              /\ readded' = readded \ {dev}
              /\ last' = Observe("cb", NoEvent, dev, r, Registered(blkdev_list, dev))
              /\ scn' = NoScenario
    /\ UNCHANGED <<ums_vars, entry_vars>>

\* the VolumeManager invokes an ok-to-destroy callback it holds, whose
\* BlockDevice has been destroyed by an earlier callback
FreedCallbackFires ==
    /\ last.op = "idle"
    /\ \E dev \in Devnos : \E ub \in FreedOutcomes(dev) :
        /\ dangling[dev] > 0
        /\ LET r == cb_blkdev_ok_to_destroy_freed(dev, ub)
               destroyed == ub = "reused"
           IN /\ Apply(r)
              /\ dangling' = [dangling EXCEPT ![dev] =
                                 IF ub = "fault" THEN @
                                 ELSE IF destroyed THEN r.cbs[dev] ELSE @ - 1]
              /\ readded' = IF destroyed THEN readded \ {dev} ELSE readded
              /\ last' = [Observe("cb", NoEvent, dev, r, destroyed)
                            EXCEPT !.freed = TRUE,
                                   !.status = IF ub = "fault" THEN "fault"
                                              ELSE "returned"]
              /\ scn' = NoScenario
    /\ UNCHANGED <<ums_vars, entry_vars>>

\* the handler's result goes back to the caller, which waits for the next
\* event; after a fault there is no daemon left to do so
ReturnToCaller ==
    /\ last.op # "idle"
    /\ last.status = "returned"
    /\ last' = Idle
    /\ UNCHANGED <<blkdev_list, media_list, eject_cbs, dangling, readded, scn>>
    /\ UNCHANGED <<ums_vars, entry_vars>>

Next ==
    BlockEvent \/ MmcEvent \/ CallbackFires \/ FreedCallbackFires \/ ReturnToCaller

Spec == Init /\ [][Next]_vars

\* the same behaviours, with readded kept up to date
NextObserved ==
    \/ BlockEventObserved \/ MmcEvent \/ CallbackFires \/ FreedCallbackFires
    \/ ReturnToCaller

SpecObserved == Init /\ [][NextObserved]_vars

----------------------------------------------------------------------------
(* The state machine of the USB mass storage flags: switch events from the
   kernel, and the setters called by the rest of the daemon.  A fault ends
   the daemon: nothing runs after it. *)

ApplyUms(u) ==
    /\ host_connected' = u.host_connected
    /\ ums_enabled' = u.ums_enabled
    /\ sent' = u.sent

\* the kernel delivers a switch event and handle_switch_event runs
SwitchEvent ==
    /\ sw.status # "fault"
    /\ \E event \in SwitchEvents : \E ub \in StrcmpOutcomes :
        LET r == handle_switch_event(event, Ums(host_connected, ums_enabled, <<>>), ub)
        IN /\ ApplyUms(r.ums)
           /\ sw' = [op |-> "switch", event |-> event, arg |-> FALSE,
                     status |-> r.status, line |-> r.line, rc |-> r.rc]
    /\ UNCHANGED <<block_vars, entry_vars>>

\* the daemon calls ums_enabled_set
UmsEnabledSet ==
    /\ sw.status # "fault"
    /\ \E enabled \in BOOLEAN :
        /\ ApplyUms(ums_enabled_set(Ums(host_connected, ums_enabled, <<>>), enabled))
        /\ sw' = [op |-> "ums_enabled_set", event |-> NoEvent, arg |-> enabled,
                  status |-> "returned", line |-> 468, rc |-> 0]
    /\ UNCHANGED <<block_vars, entry_vars>>

\* the daemon calls ums_hostconnected_set
UmsHostconnectedSet ==
    /\ sw.status # "fault"
    /\ \E connected \in BOOLEAN :
        /\ ApplyUms(ums_hostconnected_set(Ums(host_connected, ums_enabled, <<>>),
                                          connected))
        /\ sw' = [op |-> "ums_hostconnected_set", event |-> NoEvent,
                  arg |-> connected, status |-> "returned", line |-> 483, rc |-> 0]
    /\ UNCHANGED <<block_vars, entry_vars>>

NextUms == SwitchEvent \/ UmsEnabledSet \/ UmsHostconnectedSet

SpecUms == Init /\ [][NextUms]_vars

----------------------------------------------------------------------------
(* Properties.  A step that runs a handler leaves its observation in last',
   with the tables before the step in the unprimed variables. *)

\* the step changed no table
TablesUnchanged ==
    /\ blkdev_list' = blkdev_list
    /\ media_list' = media_list
    /\ eject_cbs' = eject_cbs

\* the step ran the block handler on an event with this action
BlockStep(action) == last'.op = "block" /\ last'.event.action = action
MmcStep(action) == last'.op = "mmc" /\ last'.event.action = action

ValidDevtype(event) == get_uevent_param(event, "DEVTYPE") \in {"disk", "partition"}

\* the media path a block event resolves to
EventMedia(event) ==
    IF get_uevent_param(event, "DEVTYPE") = "disk"
    THEN SubSeq(event.path, 1, Len(event.path) - 2)
    ELSE SubSeq(event.path, 1, Len(event.path) - 3)

\* C1: a BlockDevice leaves the registry only in a step of the ok-to-destroy
\* callback, and that callback is one volmgr_notify_eject registered for the
\* device; a step of the block Remove handler leaves the registry and the
\* Media attachments as they were.
C1_DestroyOnlyInCallback ==
    [][ /\ \A d \in Devnos :
             Registered(blkdev_list, d) /\ ~Registered(blkdev_list', d)
               => /\ last'.op = "cb"
                  /\ last'.dev = d
                  /\ eject_cbs[d] > 0
                  /\ eject_cbs'[d] = eject_cbs[d] - 1
        /\ BlockStep(action_remove)
               => blkdev_list' = blkdev_list /\ media_list' = media_list ]_vars

\* C1 witness: the callback has run and destroyed a registered device
C1_Witness == last.op = "cb" /\ last.destroyed /\ ~Registered(blkdev_list, last.dev)

\* C2 (as claimed): every block Remove for a registered (major, minor) calls
\* volmgr_notify_eject exactly once for that device, whatever the rest of the
\* state, also when the Media of the event's path is no longer tracked.
C2_EjectForEveryKnownDevice ==
    [][ ( /\ BlockStep(action_remove)
          /\ ValidDevtype(last'.event)
          /\ Registered(blkdev_list, last'.dev) )
          => last'.calls = <<EjectCall(last'.dev)>> ]_vars

\* C3 (as claimed): a block Remove for an unregistered (major, minor) returns
\* 0, calls nothing and changes nothing, for every DEVTYPE.
C3_UnknownRemoveSucceeds ==
    [][ (BlockStep(action_remove) /\ ~Registered(blkdev_list, last'.dev))
          => (last'.rc = 0 /\ last'.calls = <<>> /\ TablesUnchanged) ]_vars

\* C3 (amended): a block Remove for an unregistered (major, minor) calls
\* nothing and changes nothing; it returns 0 when DEVTYPE is disk or partition
\* and -EINVAL for any other DEVTYPE.
C3_UnknownRemoveNoEffect ==
    [][ (BlockStep(action_remove) /\ ~Registered(blkdev_list, last'.dev))
          => /\ last'.calls = <<>> /\ TablesUnchanged
             /\ last'.rc = IF ValidDevtype(last'.event) THEN 0 ELSE -EINVAL ]_vars

\* C3 witness: a Remove reached the registry lookup, found no device and
\* returned 0
C3_Witness ==
    /\ last.op = "block" /\ last.event.action = action_remove
    /\ ~Registered(blkdev_list, last.dev)
    /\ last.ret = 359 /\ last.rc = 0

\* C4: when a disk is added to a tracked Media without block devices and then
\* its two partitions are added, considerDisk is called exactly once, while
\* the second partition's Add is processed: not during the disk's Add, not
\* during the first partition's.
C4_ConsiderOnceAfterSecondPartition ==
    scn.stage >= 1 => scn.considers = SubSeq(<<0, 0, 1>>, 1, scn.stage)

\* C4 witness: the disk and both partitions have been added
C4_Witness ==
    scn.stage = 3 /\ last.op = "block" /\ last.event.action = action_add

\* C5 (as claimed): a block Add that attaches its BlockDevice and leaves the
\* parent disk without pending partitions calls considerDisk for that disk,
\* whether the BlockDevice is new or was a placeholder.
C5_ConsiderWheneverNonePending ==
    ( /\ last.op = "block" /\ last.event.action = action_add /\ last.attached
      /\ blkdev_get_num_pending_partitions(blkdev_list, <<last.dev[1], 0>>) = 0 )
      => \E i \in 1..Len(last.calls) : last.calls[i] = ConsiderCall(<<last.dev[1], 0>>)

\* C6: whenever a handler calls considerDisk(disk), that disk has no pending
\* partition in the registry at that moment.
C6_ConsiderOnlyWhenNonePending ==
    \A i \in 1..Len(last.calls) :
        last.calls[i].fn = "volmgr_consider_disk"
          => blkdev_get_num_pending_partitions(blkdev_list, last.calls[i].dev) = 0

\* C6 witness: a block Add has handed a disk to the volume manager
C6_Witness ==
    /\ last.op = "block" /\ last.event.action = action_add
    /\ last.calls = <<ConsiderCall(<<last.dev[1], 0>>)>>

\* C7: a block Add (DEVTYPE disk or partition) whose truncated path matches no
\* tracked Media returns 0, creates and changes no BlockDevice, attaches
\* nothing and calls nothing.
C7_AddWithoutMediaNoEffect ==
    [][ ( /\ BlockStep(action_add)
          /\ ValidDevtype(last'.event)
          /\ EventMedia(last'.event) \notin DOMAIN media_list )
          => /\ last'.rc = 0 /\ last'.calls = <<>> /\ TablesUnchanged
             /\ ~last'.created /\ ~last'.attached ]_vars

\* C7 witness: an Add found no Media at its truncated path
C7_Witness ==
    /\ last.op = "block" /\ last.event.action = action_add
    /\ ValidDevtype(last.event)
    /\ EventMedia(last.event) \notin DOMAIN media_list
    /\ last.ret = 288

\* the mmc half of C8: Remove of an untracked path is an error without effect
MmcRemoveUnknownFails ==
    (MmcStep(action_remove) /\ last'.event.path \notin DOMAIN media_list)
      => (last'.rc # 0 /\ last'.calls = <<>> /\ TablesUnchanged)

\* C8 (as claimed): an mmc Remove for an untracked path returns an error and
\* changes nothing, whereas every block Remove for an unregistered
\* (major, minor) returns success.
C8_Asymmetry ==
    [][ /\ MmcRemoveUnknownFails
        /\ (BlockStep(action_remove) /\ ~Registered(blkdev_list, last'.dev))
             => last'.rc = 0 ]_vars

\* C8 (amended): an mmc Remove for an untracked path returns an error and
\* changes nothing, whereas a block Remove with DEVTYPE disk or partition for
\* an unregistered (major, minor) returns success.
C8_AsymmetryValidDevtype ==
    [][ /\ MmcRemoveUnknownFails
        /\ ( /\ BlockStep(action_remove)
             /\ ValidDevtype(last'.event)
             /\ ~Registered(blkdev_list, last'.dev) )
             => last'.rc = 0 ]_vars

\* C8 witness: an mmc Remove failed to look up its Media
C8_Witness ==
    /\ last.op = "mmc" /\ last.event.action = action_remove
    /\ last.event.path \notin DOMAIN media_list
    /\ last.ret = 415 /\ last.rc # 0

\* C9: an mmc Add whose MMC_TYPE is neither "SD" nor "MMC" returns 0 and leaves
\* the tracked Media as they are; one whose MMC_TYPE is "SD" or "MMC" either
\* returns 0 with a Media tracked at the event's path, which is the only
\* change, or fails to create the Media, returns an error and leaves the
\* tracked Media as they are.
C9_MediaOnlyForCards ==
    [][ MmcStep(action_add)
          => LET type == get_uevent_param(last'.event, "MMC_TYPE")
                 path == last'.event.path
                 Tracked ==
                     /\ last'.rc = 0
                     /\ last'.created
                     /\ DOMAIN media_list' = DOMAIN media_list \cup {path}
                     /\ \A p \in DOMAIN media_list \ {path} :
                          media_list'[p] = media_list[p]
                 Failed ==
                     /\ last'.rc # 0
                     /\ ~last'.created
                     /\ media_list' = media_list
             IN /\ blkdev_list' = blkdev_list
                /\ eject_cbs' = eject_cbs
                /\ last'.calls = <<>>
                /\ IF type \in {"SD", "MMC"}
                   THEN Tracked \/ Failed
                   ELSE last'.rc = 0 /\ media_list' = media_list ]_vars

\* C9 witness: an mmc Add has created the Media of its path
C9_Witness ==
    /\ last.op = "mmc" /\ last.event.action = action_add
    /\ last.created /\ last.rc = 0
    /\ last.event.path \in DOMAIN media_list

\* what the caller and the log see of an mmc Remove
Surfaced(r) == <<r.rc, r.log>>

\* C10 (as claimed): removing a Media that still has BlockDevices attached
\* surfaces a result or diagnostic that removing the same Media without
\* attached BlockDevices does not.
C10_UnsafeRemovalDistinct ==
    \A event \in MmcEvents :
        ( /\ event.action = action_remove
          /\ event.path \in DOMAIN media_list
          /\ media_list[event.path].devs # {} )
          => Surfaced(mmc_remove(media_list, event))
               # Surfaced(mmc_remove([media_list EXCEPT ![event.path].devs = {}],
                                     event))

\* C19: a step of the ok-to-destroy callback for a registered BlockDevice
\* leaves the device out of the registry and attached to no Media, whether or
\* not a Media that held it is still tracked; nothing else changes, and what
\* it does is determined by the tables and the device it was given: it has no
\* Event.
C19_CallbackDetachesAndDestroys ==
    [][ (last'.op = "cb" /\ ~last'.freed /\ Registered(blkdev_list, last'.dev))
          => LET dev == last'.dev
             IN /\ last'.event = NoEvent
                /\ blkdev_list' = {b \in blkdev_list : DevnoOf(b) # dev}
                /\ DOMAIN media_list' = DOMAIN media_list
                /\ \A p \in DOMAIN media_list :
                     media_list'[p].devs = media_list[p].devs \ {dev} ]_vars

\* C19 witness: the callback has destroyed a device whose Media is no longer
\* tracked
C19_Witness ==
    /\ last.op = "cb" /\ last.destroyed
    /\ DOMAIN media_list = {}
    /\ blkdev_list # {}

\* no two BlockDevices of the registry have the same (major, minor)
UniqueDevnos(list) ==
    \A b1 \in list : \A b2 \in list : DevnoOf(b1) = DevnoOf(b2) => b1 = b2

\* C20: the registry never holds two BlockDevices with the same
\* (major, minor), and a block Add for a registered (major, minor) creates no
\* BlockDevice: the registry stays as it is or differs only in that device's
\* device path, which becomes the event's path.
C20_OneDevicePerDevno ==
    [][ /\ UniqueDevnos(blkdev_list')
        /\ (BlockStep(action_add) /\ Registered(blkdev_list, last'.dev))
             => /\ ~last'.created
                /\ \/ blkdev_list' = blkdev_list
                   \/ blkdev_list' =
                        { IF DevnoOf(b) = last'.dev
                          THEN [b EXCEPT !.devpath = last'.event.path] ELSE b :
                          b \in blkdev_list } ]_vars

\* C20 witness: an Add for a placeholder has given it its device path
C20_Witness ==
    /\ last.op = "block" /\ last.event.action = action_add
    /\ ~last.created /\ last.attached
    /\ \E b \in blkdev_list : DevnoOf(b) = last.dev /\ b.devpath = last.event.path
    /\ Cardinality(blkdev_list) >= 2

C22_DestroyedAtMostOnce == last.op = "cb" => ~last.freed

\* C23 (as claimed): whenever the ok-to-destroy callback destroys the
\* BlockDevice it was registered for, no block Add has found that device
\* since the last Remove processed for its (major, minor).
C23_DestroyOnlyAfterRemove ==
    [][ (last'.op = "cb" /\ ~last'.freed /\ last'.destroyed)
          => last'.dev \notin readded ]_vars

\* C24 (as claimed): a block Add that returns an error leaves the BlockDevice
\* registry and the Media attachments as they were before the event.
C24_FailedAddChangesNothing ==
    [][ (BlockStep(action_add) /\ last'.rc < 0)
          => (blkdev_list' = blkdev_list /\ media_list' = media_list) ]_vars

\* the step called volmgr_notify_eject and the VolumeManager refused: it holds
\* no callback more than before
EjectFailed == /\ \E i \in 1..Len(last'.calls) : last'.calls[i].fn = "volmgr_notify_eject"
               /\ eject_cbs' = eject_cbs

\* the step ended at the return taken when volmgr_consider_disk fails
ConsiderFailed == last'.ret = 348

\* C25 (as claimed): the block handler's result reflects collaborator
\* failures: a block Remove of a registered device whose notifyEject fails
\* returns an error, as a block Add whose considerDisk fails does.
C25_ResultReflectsFailures ==
    [][ /\ (BlockStep(action_remove) /\ EjectFailed) => last'.rc < 0
        /\ (BlockStep(action_add) /\ ConsiderFailed) => last'.rc < 0 ]_vars

----------------------------------------------------------------------------
(* The state machine of the entry points: one call of process_uevent_message
   on a received message, or one call of simulate_uevent *)

InitEntry ==
    /\ blkdev_list = {}
    /\ media_list = <<>>
    /\ eject_cbs = [d \in Devnos |-> 0]
    /\ dangling = [d \in Devnos |-> 0]
    /\ readded = {}
    /\ last = Idle
    /\ scn = NoScenario
    /\ host_connected = FALSE
    /\ ums_enabled = FALSE
    /\ sent = <<>>
    /\ sw = NoSwitch
    /\ \/ /\ \E m \in Messages : buffer = m.mem /\ count = m.count
          /\ pum = EntryFrame
          /\ sim = NoSim
       \/ /\ buffer = <<>>
          /\ count = 0
          /\ pum = NotEntered
          /\ \E args \in SimArgs : sim = [args |-> args, f |-> EntryFrame]

\* lines 86-97: recv() and malloc(); either can fail and end the call
Receive ==
    /\ pum.pc = "recv"
    /\ \E ok \in BOOLEAN :
          pum' = IF ok THEN [pum EXCEPT !.pc = "loop", !.allocated = 1]
                 ELSE [pum EXCEPT !.pc = "done", !.rc = -1]
    /\ UNCHANGED <<block_vars, ums_vars, buffer, count, sim>>

\* lines 98-124: one iteration of the parse loop
ParseString ==
    /\ pum.pc = "loop"
    /\ pum.s < count
    /\ pum' = parse_step(pum, buffer, count)
    /\ UNCHANGED <<block_vars, ums_vars, buffer, count, sim>>

\* lines 126-129: the loop has ended; dispatch, free, return
Dispatch ==
    /\ pum.pc = "loop"
    /\ pum.s >= count
    /\ \E hrc \in HandlerRcs : \E ub \in StrcmpOutcomes :
          pum' = dispatch_and_free(pum, hrc, ub)
    /\ UNCHANGED <<block_vars, ums_vars, buffer, count, sim>>

\* a call of simulate_uevent, to its return
Simulate ==
    /\ sim.f.pc = "recv"
    /\ \E malloc_ok \in BOOLEAN : \E hrc \in HandlerRcs : \E ub \in StrcmpOutcomes :
          sim' = [sim EXCEPT !.f = simulate_uevent(sim.args, malloc_ok, hrc, ub)]
    /\ UNCHANGED <<block_vars, ums_vars, buffer, count, pum>>

NextEntry == Receive \/ ParseString \/ Dispatch \/ Simulate

SpecEntry == InitEntry /\ [][NextEntry]_vars

----------------------------------------------------------------------------
(* Properties of the entry points *)

\* the call of process_uevent_message has ended, by a return or by a fault
Ended == pum.pc \in {"done", "fault"}

\* the received bytes
Received == SubSeq(buffer, 1, count)

\* the first string ends inside the received bytes and holds no '@'
FirstStringLacksAt ==
    LET nul == FirstFrom(buffer, 0, NUL)
        at == FirstFrom(buffer, 0, "@")
    IN /\ 0 <= nul /\ nul < count
       /\ at < 0 \/ at > nul

\* C12 (as claimed): when the first string of the buffer holds no '@', the
\* call returns an error without dispatching a handler, takes no path from the
\* message, and reads nothing after the first string's terminator.
C12_NoAtIsParseError ==
    (FirstStringLacksAt /\ pum.allocated = 1)
      => /\ pum.event.path = NullStr
         /\ pum.read_upto <= FirstFrom(buffer, 0, NUL) + 1
         /\ Ended => (pum.pc = "done" /\ pum.rc < 0 /\ pum.handler = "none")

\* C13 (as claimed): every byte the parser reads lies inside the received
\* length, for every buffer and length.
C13_ReadsWithinCount == pum.read_upto <= count

\* C14 (as claimed): the param index never exceeds the capacity of the param
\* array and nothing is written outside param[0..31], however many strings
\* the message carries.
C14_ParamsWithinCapacity ==
    /\ pum.param_idx <= UEVENT_PARAMS_MAX
    /\ ~pum.oob
    /\ Len(pum.event.param) <= UEVENT_PARAMS_MAX

\* the strings of the received bytes, in arrival order
Strings(bytes) ==
    LET RECURSIVE Split(_)
        Split(off) == IF off >= Len(bytes) \/ FirstFrom(bytes, off, NUL) < 0 THEN <<>>
                      ELSE <<Bytes(bytes, off, FirstFrom(bytes, off, NUL))>>
                             \o Split(FirstFrom(bytes, off, NUL) + 1)
    IN Split(0)

IsSpecial(str) ==
    HasPrefix(str, Txt_ACTION) \/ HasPrefix(str, Txt_SEQNUM)
      \/ HasPrefix(str, Txt_SUBSYSTEM)

\* the value of the last string with this prefix, none for no such string
LastValue(strs, pre, none) ==
    LET hits == {i \in 2..Len(strs) : HasPrefix(strs[i], pre)}
    IN IF hits = {} THEN none
       ELSE Skip(strs[CHOOSE i \in hits : \A j \in hits : j <= i], Len(pre))

\* a message of terminated strings whose first holds an '@' and that carries
\* at most UEVENT_PARAMS_MAX strings other than ACTION, SEQNUM, SUBSYSTEM
WellFormed ==
    /\ count > 0
    /\ buffer[count] = NUL
    /\ \E i \in 1..Len(Strings(Received)[1]) : Strings(Received)[1][i] = "@"
    /\ Len(SelectSeq(Tail(Strings(Received)), LAMBDA x : ~IsSpecial(x)))
         <= UEVENT_PARAMS_MAX

\* C15: once the parse loop has gone through a well-formed message, the
\* Event's path is the text after the first '@' of the first string, its
\* subsystem and seqnum are those of the SUBSYSTEM= and SEQNUM= strings, its
\* action is the one named by the ACTION= string (add, change, remove), and
\* its params are the other strings in arrival order: no ACTION=, SEQNUM= or
\* SUBSYSTEM= string is among them.
C15_ParsedEvent ==
    (WellFormed /\ pum.pc \in {"loop", "done"} /\ pum.s >= count)
      => LET strs == Strings(Received)
             first == strs[1]
             at == CHOOSE i \in 1..Len(first) :
                      first[i] = "@" /\ \A j \in 1..(i - 1) : first[j] # "@"
             act == LastValue(strs, Txt_ACTION, NullStr)
         IN /\ pum.event.path = SubSeq(first, at + 1, Len(first))
            /\ pum.event.subsystem = LastValue(strs, Txt_SUBSYSTEM, NullStr)
            /\ pum.event.seqnum = atoi_bytes(LastValue(strs, Txt_SEQNUM, <<>>))
            /\ act = Txt_add => pum.event.action = action_add
            /\ act = Txt_change => pum.event.action = action_change
            /\ act = Txt_remove => pum.event.action = action_remove
            /\ pum.event.param = SelectSeq(Tail(strs), LAMBDA x : ~IsSpecial(x))
            /\ \A i \in 1..Len(pum.event.param) : ~IsSpecial(pum.event.param[i])

\* C15 witness: a well-formed message with an ACTION=remove, a SUBSYSTEM= and
\* a SEQNUM= string and two params has been parsed and dispatched
C15_Witness ==
    /\ WellFormed /\ pum.pc = "done"
    /\ pum.event.action = action_remove
    /\ pum.event.subsystem = Txt_block
    /\ pum.event.seqnum = 12
    /\ Len(pum.event.param) = 2

\* the handler dispatch_table holds for a subsystem, "none" without one
HandlerFor(subsystem) ==
    IF \E i \in 1..Len(dispatch_table) : dispatch_table[i].subsystem = subsystem
    THEN dispatch_table[CHOOSE i \in 1..Len(dispatch_table) :
                           dispatch_table[i].subsystem = subsystem].dispatch
    ELSE "none"

\* C16 (as claimed): dispatching an Event invokes the handler registered for
\* exactly the Event's subsystem and no other; when no tag equals the
\* subsystem, a message without SUBSYSTEM string included, no handler runs
\* and the call returns 0.
C16_ExactlyOneHandler ==
    [][ (pum.pc = "loop" /\ pum.s >= count)
          => /\ pum'.pc = "done"
             /\ pum'.handler = HandlerFor(pum.event.subsystem)
             /\ pum'.handler = "none" => pum'.rc = 0 ]_vars

\* what a call did, seqnum aside: how it ended, the handler it invoked and the
\* Event it passed, its result code
CallResult(f) ==
    [pc |-> f.pc, handler |-> f.handler, rc |-> f.rc, path |-> f.event.path,
     action |-> f.event.action, subsystem |-> f.event.subsystem,
     param |-> f.event.param]

\* C17 (as claimed): what a call of simulate_uevent did is what
\* process_uevent_message does on the message that encodes the same path,
\* ACTION, SUBSYSTEM and params, also for an action text other than add,
\* change, remove.
C17_SimulateAsProcess ==
    sim.f.pc \in {"done", "fault"} /\ sim.f.allocated = 1
      => \E hrc \in HandlerRcs : \E ub \in StrcmpOutcomes :
            CallResult(sim.f) =
              CallResult(process_uevent_message(Encode(sim.args),
                                                Len(Encode(sim.args)), hrc, ub))

\* C18 (as claimed): when an entry point has returned, the Event it allocated
\* has been freed exactly once, on every return path.
C18_EventFreedOnce ==
    /\ pum.pc = "done" => pum.freed = pum.allocated
    /\ sim.f.pc = "done" => sim.f.freed = sim.f.allocated

----------------------------------------------------------------------------
(* Properties of the switch handler *)

SwitchStep == sw'.op = "switch"

FlagsUnchanged == host_connected' = host_connected /\ ums_enabled' = ums_enabled

\* C11 (as claimed): for every switch event the handler returns success; when
\* SWITCH_NAME is "usb_mass_storage" host_connected becomes true for
\* SWITCH_STATE "online" and false otherwise; for any other SWITCH_NAME,
\* a missing one included, the flags stay and no message is sent.
C11_SwitchSetsHostConnected ==
    [][ SwitchStep
          => LET name == get_uevent_param(sw'.event, "SWITCH_NAME")
                 state == get_uevent_param(sw'.event, "SWITCH_STATE")
             IN /\ sw'.status = "returned"
                /\ sw'.rc = 0
                /\ IF name = "usb_mass_storage"
                   THEN host_connected' = (state = "online")
                   ELSE FlagsUnchanged /\ sent' = <<>> ]_vars

\* the step made the host disconnected: ums_hostconnected_set(false), called
\* directly or by the switch handler for a usb_mass_storage event whose
\* SWITCH_STATE is not "online"
DisconnectStep ==
    /\ sw'.status = "returned"
    /\ \/ sw'.op = "ums_hostconnected_set" /\ ~sw'.arg
       \/ /\ sw'.op = "switch"
          /\ get_uevent_param(sw'.event, "SWITCH_NAME") = "usb_mass_storage"
          /\ get_uevent_param(sw'.event, "SWITCH_STATE") \notin {NULL, "online"}

\* the messages of a disconnect: UMS_DISABLED, then UMS_DISCONNECTED
DisabledThenDisconnected(msgs) ==
    \E i \in 1..Len(msgs) : \E j \in 1..Len(msgs) :
        /\ i < j
        /\ msgs[i] = VOLD_EVT_UMS_DISABLED
        /\ msgs[j] = VOLD_EVT_UMS_DISCONNECTED

\* C26 (as claimed): after every step of the switch handler or of a ums
\* setter, mass storage enabled implies host connected; and every step that
\* makes the host disconnected leaves ums_enabled false and sends
\* UMS_DISABLED before UMS_DISCONNECTED.
C26_EnabledImpliesConnected ==
    [][ /\ ums_enabled' => host_connected'
        /\ DisconnectStep
             => /\ ~host_connected' /\ ~ums_enabled'
                /\ DisabledThenDisconnected(sent') ]_vars

====
